---- MODULE Spec2Model ----
(***************************************************************************)
(* State-machine model of the HTML minifier in src/html/html.go.           *)
(*                                                                         *)
(* Bytes are one-character strings, byte slices are sequences of them.     *)
(* A tag or attribute name is kept as a one-element slice <<name>>, and    *)
(* its Hash is the name itself ("" is the zero hash).  A nil slice is <<>>.*)
(***************************************************************************)
EXTENDS Integers, Sequences, FiniteSets, TLC

VARIABLES
    tb,                     \* TokenBuffer: every token of the stream, the Error token last
    pos,                    \* TokenBuffer: number of tokens already shifted
    z,                      \* the tokens the tokenizer delivers, as it delivers them
    zErr,                   \* z.Err() once the stream is exhausted
    m,                      \* the minifier registry handed to Minify
    w,                      \* the bytes written to the sink so far
    log,                    \* history: every step taken, in order
    mlog,                   \* history: media type of each registry call
    rawTag,
    rawTagMediatype,
    precededBySpace,
    defaultScriptType,
    defaultStyleType,
    defaultInlineStyleType,
    attrIntBuffer,
    pc,                     \* "loop": top of the for loop, "attrs": attribute loop, "done"
    t,                      \* the tag whose attributes are being written
    last,                   \* history: what the last step decided
    ret,                    \* the value Minify returned
    pass,                   \* 1: minifying the input, 2: minifying the first output
    w1,                     \* the output of the first pass
    esc                     \* one call frame of escapeAttrVal

vars == <<tb, pos, z, zErr, m, w, log, mlog, rawTag, rawTagMediatype,
          precededBySpace, defaultScriptType, defaultStyleType,
          defaultInlineStyleType, attrIntBuffer, pc, t, last, ret, pass, w1, esc>>

----------------------------------------------------------------------------
(* Bounds of the checked instances.                                         *)

MaxTokens == 3
MaxTextTokens == 4
MaxParts == 3

----------------------------------------------------------------------------
(* Byte helpers (package bytes and github.com/tdewolff/parse).              *)

Upper == <<"A","B","C","D","E","F","G","H","I","J","K","L","M",
           "N","O","P","Q","R","S","T","U","V","W","X","Y","Z">>
Lower == <<"a","b","c","d","e","f","g","h","i","j","k","l","m",
           "n","o","p","q","r","s","t","u","v","w","x","y","z">>

ToLowerByte(c) ==
    IF \E i \in 1..26 : Upper[i] = c
    THEN Lower[CHOOSE i \in 1..26 : Upper[i] = c]
    ELSE c

ToLower(b) == [i \in 1..Len(b) |-> ToLowerByte(b[i])]

IsWhitespace(c) == c \in {" ", "\t", "\n", "\r", "\f"}

IsAllWhitespace(b) == \A i \in 1..Len(b) : IsWhitespace(b[i])

Equal(a, b) == a = b

EqualCaseInsensitive(a, b) == ToLower(a) = ToLower(b)

HasPrefix(b, p) == Len(b) >= Len(p) /\ SubSeq(b, 1, Len(p)) = p

HasSuffix(b, s) == Len(b) >= Len(s) /\ SubSeq(b, Len(b) - Len(s) + 1, Len(b)) = s

\* b[from:] with Go's zero-based index from
From(b, from) == SubSeq(b, from + 1, Len(b))

RECURSIVE TrimLeft(_)
TrimLeft(b) ==
    IF b # <<>> /\ IsWhitespace(b[1]) THEN TrimLeft(Tail(b)) ELSE b

RECURSIVE TrimRight(_)
TrimRight(b) ==
    IF b # <<>> /\ IsWhitespace(b[Len(b)])
    THEN TrimRight(SubSeq(b, 1, Len(b) - 1)) ELSE b

\* parse.Trim(b, parse.IsWhitespace)
Trim(b) == TrimRight(TrimLeft(b))

\* parse.ReplaceMultiple(b, parse.IsWhitespace, ' '): every maximal run of
\* whitespace becomes one space
RECURSIVE ReplaceMultiple(_)
ReplaceMultiple(b) ==
    IF b = <<>> THEN <<>>
    ELSE IF IsWhitespace(b[1])
         THEN <<" ">> \o ReplaceMultiple(TrimLeft(b))
         ELSE <<b[1]>> \o ReplaceMultiple(Tail(b))

\* bytes.Replace(b, old, new, -1)
RECURSIVE Replace(_, _, _)
Replace(b, old, new) ==
    IF b = <<>> THEN <<>>
    ELSE IF HasPrefix(b, old)
         THEN new \o Replace(From(b, Len(old)), old, new)
         ELSE <<b[1]>> \o Replace(Tail(b), old, new)

\* parse.NormalizeContentType: whitespace outside double-quoted strings is
\* removed and the result is lower-cased
RECURSIVE StripSpaces(_, _)
StripSpaces(b, inString) ==
    IF b = <<>> THEN <<>>
    ELSE IF ~inString /\ IsWhitespace(b[1]) THEN StripSpaces(Tail(b), inString)
    ELSE IF b[1] = "\"" THEN <<b[1]>> \o StripSpaces(Tail(b), ~inString)
    ELSE <<b[1]>> \o StripSpaces(Tail(b), inString)

NormalizeContentType(b) == ToLower(StripSpaces(b, FALSE))

----------------------------------------------------------------------------
(* Byte-slice constants of the source.                                      *)

ltBytes == <<"<">>
gtBytes == <<">">>
isBytes == <<"=">>
spaceBytes == <<" ">>
endBytes == <<"</">>
escapedSingleQuoteBytes == <<"&", "#", "3", "9", ";">>
escapedDoubleQuoteBytes == <<"&", "#", "3", "4", ";">>
externalBytes == <<"e","x","t","e","r","n","a","l">>
httpBytes == <<"h","t","t","p">>

TextJavascript == <<"t","e","x","t","/","j","a","v","a","s","c","r","i","p","t">>
TextCss == <<"t","e","x","t","/","c","s","s">>
InlineSuffix == <<";","i","n","l","i","n","e","=","1">>
TextHtml == <<"t","e","x","t","/","h","t","m","l">>
ImageSvg == <<"i","m","a","g","e","/","s","v","g","+","x","m","l">>
ApplicationMathml == <<"a","p","p","l","i","c","a","t","i","o","n","/",
                       "m","a","t","h","m","l","+","x","m","l">>
CdataOpen == <<"<","!","[","C","D","A","T","A","[">>
CdataClose == <<"]","]",">">>

----------------------------------------------------------------------------
(* Classification tables (declared in the package, outside html.go).        *)

inlineTagMap == {"a", "b", "span", "em", "img", "input", "button"}

blockTagMap == {"div", "p", "ul", "li", "form", "table", "h1"}

rawTagMap == {"script", "style", "iframe", "svg", "math", "pre"}

booleanAttrMap == {"checked", "disabled", "async"}

caseInsensitiveAttrMap == {"type", "method", "enctype", "rel", "charset",
                           "http-equiv", "media", "dir", "lang"}

urlAttrMap == {"href", "src", "action"}

----------------------------------------------------------------------------
(* Tokens and the TokenBuffer.                                              *)

Tok(type, data, attrVal, hash) ==
    [TokenType |-> type, Data |-> data, AttrVal |-> attrVal, Hash |-> hash]

ErrorTok == Tok("ErrorToken", <<>>, <<>>, "")
DoctypeTok == Tok("DoctypeToken", <<>>, <<>>, "")
CommentTok(d) == Tok("CommentToken", d, <<>>, "")
TextTok(d) == Tok("TextToken", d, <<>>, "")
StartTagTok(n) == Tok("StartTagToken", <<n>>, <<>>, n)
EndTagTok(n) == Tok("EndTagToken", <<n>>, <<>>, n)
AttributeTok(n, v) == Tok("AttributeToken", <<n>>, v, n)

\* index in tb of the token i places ahead: past the end of the stream the
\* Error token is reported again
PeekIndex(buf, p, i) == IF p + i + 1 <= Len(buf) THEN p + i + 1 ELSE Len(buf)

PeekAt(buf, p, i) == buf[PeekIndex(buf, p, i)]

Peek(i) == PeekAt(tb, pos, i)

\* pos after tb.Shift()
ShiftFrom(buf, p) == IF p < Len(buf) THEN p + 1 ELSE p

\* t := *tb.Shift() read as a peek: the token is never consumed
ShiftStuck == pos

Shift == ShiftFrom(tb, pos)

----------------------------------------------------------------------------
(* The Quoting Engine: isAtQuoteEntity and escapeAttrVal.                   *)
(* Indices i, j, start are the source's zero-based indices; b[i] of the     *)
(* source is b[i + 1] here.                                                 *)

\* the grave accent byte 0x60, which a TLA+ string cannot hold
Backtick == "BACKTICK"

NoEntity == [quote |-> "", n |-> 0, ok |-> FALSE]

\* the loop that skips the zero padding of a numeric entity
RECURSIVE SkipZeros(_, _)
SkipZeros(b, i) ==
    IF i < Len(b) /\ b[i + 1] = "0" THEN SkipZeros(b, i + 1) ELSE i

\* it is assumed that b[0] is the ampersand
isAtQuoteEntity(b) ==
    IF Len(b) < 5 THEN NoEntity
    ELSE IF b[2] = "#" THEN
        IF b[3] = "x" THEN
            LET i == SkipZeros(b, 3) IN
            IF i + 2 < Len(b) /\ b[i + 1] = "2" /\ b[i + 3] = ";" THEN
                IF b[i + 2] = "2" THEN [quote |-> "\"", n |-> i + 3, ok |-> TRUE]
                ELSE IF b[i + 2] = "7" THEN [quote |-> "'", n |-> i + 3, ok |-> TRUE]
                ELSE NoEntity
            ELSE NoEntity
        ELSE
            LET i == SkipZeros(b, 2) IN
            IF i + 2 < Len(b) /\ b[i + 1] = "3" /\ b[i + 3] = ";" THEN
                IF b[i + 2] = "4" THEN [quote |-> "\"", n |-> i + 3, ok |-> TRUE]
                ELSE IF b[i + 2] = "9" THEN [quote |-> "'", n |-> i + 3, ok |-> TRUE]
                ELSE NoEntity
            ELSE NoEntity
    ELSE IF Len(b) >= 6 /\ b[6] = ";" THEN
        IF EqualCaseInsensitive(SubSeq(b, 2, 5), <<"q","u","o","t">>)
        THEN [quote |-> "\"", n |-> 6, ok |-> TRUE]
        ELSE IF EqualCaseInsensitive(SubSeq(b, 2, 5), <<"a","p","o","s">>)
        THEN [quote |-> "'", n |-> 6, ok |-> TRUE]
        ELSE NoEntity
    ELSE NoEntity

\* the first loop of escapeAttrVal, from index i on
RECURSIVE CountQuotes(_, _, _)
CountQuotes(b, i, c) ==
    IF i >= Len(b) THEN c
    ELSE LET ch == b[i + 1] IN
         CountQuotes(b, i + 1,
            IF ch = "&" THEN
                LET e == isAtQuoteEntity(From(b, i)) IN
                IF e.ok THEN
                    IF e.quote = "\""
                    THEN [c EXCEPT !.doubles = @ + 1, !.unquoted = FALSE]
                    ELSE [c EXCEPT !.singles = @ + 1, !.unquoted = FALSE]
                ELSE c
            ELSE IF ch = "\"" THEN [c EXCEPT !.doubles = @ + 1, !.unquoted = FALSE]
            ELSE IF ch = "'" THEN [c EXCEPT !.singles = @ + 1, !.unquoted = FALSE]
            ELSE IF c.unquoted /\ (ch \in {Backtick, "<", "=", ">"} \/ IsWhitespace(ch))
                 THEN [c EXCEPT !.unquoted = FALSE]
            ELSE c)

Counts(b) == CountQuotes(b, 0, [singles |-> 0, doubles |-> 0, unquoted |-> TRUE])

\* the single quote when doubles > singles, else the double quote
ChooseQuoteTieSingle(singles, doubles) == IF doubles >= singles THEN "'" ELSE "\""

ChooseQuote(singles, doubles) == IF doubles > singles THEN "'" ELSE "\""

EscapedQuote(quote) ==
    IF quote = "'" THEN escapedSingleQuoteBytes ELSE escapedDoubleQuoteBytes

\* j += copy(t[j:], src), t holding size bytes of which the first Len(out)
\* are written: copy stops at the end of t
CopyInto(out, src, size) ==
    LET room == size - Len(out)
        n == IF Len(src) < room THEN Len(src) ELSE room
    IN  out \o SubSeq(src, 1, n)

\* the second loop of escapeAttrVal, from index i on
RECURSIVE Rebuild(_, _, _, _, _, _)
Rebuild(b, i, start, out, quote, size) ==
    IF i >= Len(b) THEN CopyInto(out, From(b, start), size)
    ELSE LET ch == b[i + 1] IN
         IF ch = "&" THEN
            LET e == isAtQuoteEntity(From(b, i)) IN
            IF e.ok THEN
                LET o1 == CopyInto(out, SubSeq(b, start + 1, i), size)
                    o2 == IF e.quote # quote
                          THEN CopyInto(o1, <<e.quote>>, size)
                          ELSE CopyInto(o1, EscapedQuote(quote), size)
                IN  Rebuild(b, i + 1, i + e.n, o2, quote, size)
            ELSE Rebuild(b, i + 1, start, out, quote, size)
         ELSE IF ch = quote THEN
            LET o1 == CopyInto(out, SubSeq(b, start + 1, i), size)
                o2 == CopyInto(o1, EscapedQuote(quote), size)
            IN  Rebuild(b, i + 1, i + 1, o2, quote, size)
         ELSE Rebuild(b, i + 1, start, out, quote, size)

Returned(v) == [panic |-> FALSE, val |-> v]

\* t[j] = quote with j = len(t): index out of range
Panicked == [panic |-> TRUE, val |-> <<>>]

\* the unquoted test and the reuse of the original bytes
NeedsRebuildAlways(orig, b) == ~Counts(b).unquoted

NeedsRebuild(orig, b) ==
    LET c == Counts(b) IN
    ~c.unquoted /\ ~(c.singles = 0 /\ c.doubles = 0 /\ Len(orig) = Len(b) + 2)

escapeAttrVal(orig, b) ==
    LET c == Counts(b) IN
    IF c.unquoted THEN Returned(b)
    ELSE IF ~NeedsRebuild(orig, b) THEN Returned(orig)
    ELSE LET quote == ChooseQuote(c.singles, c.doubles)
             size == Len(b) + 2
             out == Rebuild(b, 0, 0, <<quote>>, quote, size)
         IN  IF Len(out) >= size THEN Panicked
             ELSE Returned(out \o <<quote>>)

----------------------------------------------------------------------------
(* The minifier registry m (an external collaborator): "none" has no        *)
(* minifier for any media type (minify.ErrNotExist), "strip" has one that   *)
(* succeeds and drops whitespace, "fail" has one that returns an error.     *)

Registries == {"none", "strip", "fail"}

MinifierOutput(data) == SelectSeq(data, LAMBDA c : ~IsWhitespace(c))

----------------------------------------------------------------------------
(* Lookahead scans of Minify.                                               *)

\* the same loop with the closing tag of an inline element ending the scan
RECURSIVE TrimScanInlineEndStops(_, _, _)
TrimScanInlineEndStops(buf, p, i) ==
    LET next == PeekAt(buf, p, i) IN
    IF next.TokenType = "ErrorToken" THEN TRUE
    ELSE IF next.TokenType = "TextToken"
         THEN Len(next.Data) > 0 /\ IsWhitespace(next.Data[1])
    ELSE IF next.TokenType \in {"StartTagToken", "EndTagToken"} THEN
         next.Hash \notin inlineTagMap
    ELSE TrimScanInlineEndStops(buf, p, i + 1)

\* whitespace removal; trim right: the for loop over tb.Peek(i)
RECURSIVE TrimScan(_, _, _)
TrimScan(buf, p, i) ==
    LET next == PeekAt(buf, p, i) IN
    IF next.TokenType = "ErrorToken" THEN TRUE
    ELSE IF next.TokenType = "TextToken"
         THEN Len(next.Data) > 0 /\ IsWhitespace(next.Data[1])
    ELSE IF next.TokenType \in {"StartTagToken", "EndTagToken"} THEN
         IF next.Hash \notin inlineTagMap THEN TRUE
         ELSE IF next.TokenType = "StartTagToken" THEN FALSE
         ELSE TrimScan(buf, p, i + 1)
    ELSE TrimScan(buf, p, i + 1)

\* the scan that decides whether an end tag of p is removed
\* the same scan with the end tag of an anchor counted like any end tag
RECURSIVE EndPScanAnyEndTag(_, _, _)
EndPScanAnyEndTag(buf, p, i) ==
    LET next == PeekAt(buf, p, i) IN
    IF next.TokenType = "TextToken" /\ IsAllWhitespace(next.Data)
    THEN EndPScanAnyEndTag(buf, p, i + 1)
    ELSE \/ next.TokenType = "ErrorToken"
         \/ next.TokenType = "EndTagToken"
         \/ next.TokenType = "StartTagToken" /\ next.Hash \in blockTagMap

RECURSIVE EndPScan(_, _, _)
EndPScan(buf, p, i) ==
    LET next == PeekAt(buf, p, i) IN
    IF next.TokenType = "TextToken" /\ IsAllWhitespace(next.Data)
    THEN EndPScan(buf, p, i + 1)
    ELSE \/ next.TokenType = "ErrorToken"
         \/ next.TokenType = "EndTagToken" /\ next.Hash # "a"
         \/ next.TokenType = "StartTagToken" /\ next.Hash \in blockTagMap

----------------------------------------------------------------------------
(* getAttributes.  attrIntBuffer keeps its capacity of 4 between calls and  *)
(* is resliced, not cleared; attrTokenBuffer is rewritten in full by every  *)
(* call, so only the returned tokens (as indices into tb, 0 for nil) are    *)
(* kept.                                                                    *)

\* the first loop: (*attrIndexBuffer)[j] = i + 1 for every matching hash
RECURSIVE IndexAttributes(_, _, _, _, _)
IndexAttributes(buf, p, i, ib, hashes) ==
    LET tok == PeekAt(buf, p, i) IN
    IF tok.TokenType # "AttributeToken" THEN ib
    ELSE IndexAttributes(buf, p, i + 1,
            [j \in 1..Len(ib) |->
                IF j <= Len(hashes) /\ tok.Hash = hashes[j] THEN i + 1 ELSE ib[j]],
            hashes)

\* the quote pair of a raw value removed and the rest trimmed
Unwrap(val) ==
    IF Len(val) > 1 /\ val[1] \in {"\"", "'"}
    THEN Trim(SubSeq(val, 2, Len(val) - 1))
    ELSE val

\* the second loop, from j on: the value of every indexed token is unwrapped
\* in the buffer
RECURSIVE UnwrapIndexed(_, _, _, _, _)
UnwrapIndexed(buf, p, ib, j, n) ==
    IF j > n THEN buf
    ELSE IF ib[j] > 0
         THEN LET k == PeekIndex(buf, p, ib[j] - 1) IN
              UnwrapIndexed([buf EXCEPT ![k].AttrVal = Unwrap(@)], p, ib, j + 1, n)
         ELSE UnwrapIndexed(buf, p, ib, j + 1, n)

getAttributes(buf, p, ib, hashes) ==
    LET ib2 == IndexAttributes(buf, p, 0, ib, hashes)
        n == Len(hashes)
    IN  [tb |-> UnwrapIndexed(buf, p, ib2, 1, n),
         ib |-> ib2,
         attr |-> [j \in 1..n |->
                     IF ib2[j] > 0 THEN PeekIndex(buf, p, ib2[j] - 1) ELSE 0]]

----------------------------------------------------------------------------
(* Rewriting of attributes with interdependent conditions.                  *)

\* http: and https: removed from the front of a URL
StripScheme(val) ==
    IF Len(val) > 5 /\ EqualCaseInsensitive(SubSeq(val, 1, 4), httpBytes)
    THEN IF val[5] = ":" THEN From(val, 5)
         ELSE IF val[5] \in {"s", "S"} /\ val[6] = ":" THEN From(val, 6)
         ELSE val
    ELSE val

ContentType == <<"c","o","n","t","e","n","t","-","t","y","p","e">>
ContentStyleType ==
    <<"c","o","n","t","e","n","t","-","s","t","y","l","e","-","t","y","p","e">>
ContentScriptType ==
    <<"c","o","n","t","e","n","t","-","s","c","r","i","p","t","-","t","y","p","e">>
HtmlUtf8 == <<"t","e","x","t","/","h","t","m","l",";",
              "c","h","a","r","s","e","t","=","u","t","f","-","8">>
Utf8 == <<"u","t","f","-","8">>
Keywords == <<"k","e","y","w","o","r","d","s">>
Viewport == <<"v","i","e","w","p","o","r","t">>

\* the state a rewrite leaves: the buffer, the index buffer and the defaults
Rewritten(buf, ib, script, style, inline) ==
    [tb |-> buf, ib |-> ib, defaultScriptType |-> script,
     defaultStyleType |-> style, defaultInlineStyleType |-> inline]

RewriteA(buf, p, ib) ==
    LET g == getAttributes(buf, p, ib, <<"id", "name", "rel", "href">>)
        id == g.attr[1]
        name == g.attr[2]
        rel == g.attr[3]
        href == g.attr[4]
        b1 == IF id # 0 /\ name # 0 /\ Equal(g.tb[id].AttrVal, g.tb[name].AttrVal)
              THEN [g.tb EXCEPT ![name].Data = <<>>]
              ELSE g.tb
        b2 == IF (rel = 0 \/ ~EqualCaseInsensitive(b1[rel].AttrVal, externalBytes))
                 /\ href # 0
              THEN [b1 EXCEPT ![href].AttrVal = StripScheme(@)]
              ELSE b1
    IN  Rewritten(b2, g.ib, defaultScriptType, defaultStyleType,
                  defaultInlineStyleType)

RewriteMeta(buf, p, ib) ==
    LET g == getAttributes(buf, p, ib, <<"content", "http-equiv", "charset", "name">>)
        content == g.attr[1]
        httpEquiv == g.attr[2]
        charset == g.attr[3]
        name == g.attr[4]
        both == content # 0 /\ httpEquiv # 0
        b1 == IF both
              THEN [g.tb EXCEPT ![content].AttrVal = NormalizeContentType(@)]
              ELSE g.tb
        toCharset == both /\ charset = 0
                     /\ EqualCaseInsensitive(b1[httpEquiv].AttrVal, ContentType)
                     /\ Equal(b1[content].AttrVal, HtmlUtf8)
        toStyle == both /\ ~toCharset
                   /\ EqualCaseInsensitive(b1[httpEquiv].AttrVal, ContentStyleType)
        toScript == both /\ ~toCharset /\ ~toStyle
                    /\ EqualCaseInsensitive(b1[httpEquiv].AttrVal, ContentScriptType)
        b2 == IF toCharset
              THEN [[b1 EXCEPT ![httpEquiv].Data = <<>>]
                        EXCEPT ![content].Data = <<"charset">>,
                               ![content].Hash = "charset",
                               ![content].AttrVal = Utf8]
              ELSE b1
        b3 == IF content # 0 /\ name # 0
              THEN IF EqualCaseInsensitive(b2[name].AttrVal, Keywords)
                   THEN [b2 EXCEPT ![content].AttrVal = Replace(@, <<",", " ">>, <<",">>)]
                   ELSE IF EqualCaseInsensitive(b2[name].AttrVal, Viewport)
                   THEN [b2 EXCEPT ![content].AttrVal = Replace(@, <<" ">>, <<>>)]
                   ELSE b2
              ELSE b2
    IN  Rewritten(b3, g.ib,
                  IF toScript THEN b1[content].AttrVal ELSE defaultScriptType,
                  IF toStyle THEN b1[content].AttrVal ELSE defaultStyleType,
                  IF toStyle THEN b1[content].AttrVal \o InlineSuffix
                             ELSE defaultInlineStyleType)

RewriteScript(buf, p, ib) ==
    LET g == getAttributes(buf, p, ib, <<"src", "charset">>)
        src == g.attr[1]
        charset == g.attr[2]
    IN  Rewritten(IF src # 0 /\ charset # 0
                  THEN [g.tb EXCEPT ![charset].Data = <<>>]
                  ELSE g.tb,
                  g.ib, defaultScriptType, defaultStyleType, defaultInlineStyleType)

RewriteAttributes(hash, buf, p, ib) ==
    IF hash = "a" THEN RewriteA(buf, p, ib)
    ELSE IF hash = "meta" THEN RewriteMeta(buf, p, ib)
    ELSE IF hash = "script" THEN RewriteScript(buf, p, ib)
    ELSE Rewritten(buf, ib, defaultScriptType, defaultStyleType,
                   defaultInlineStyleType)

----------------------------------------------------------------------------
(* Minify: one action per case of the token switch, and one per iteration   *)
(* of the attribute loop.                                                   *)

Step(op, idx, out) ==
    [op |-> op, idx |-> idx, out |-> out, pbs |-> precededBySpace]

\* one step: the token at idx is handled as op and out is written to w
Do(op, idx, out) ==
    /\ w' = w \o out
    /\ last' = Step(op, idx, out)
    /\ log' = Append(log, Step(op, idx, out))

Return(err) ==
    /\ ret' = err
    /\ pc' = "done"

ErrorToken ==
    /\ pc = "loop"
    /\ Peek(0).TokenType = "ErrorToken"
    /\ pos' = Shift
    /\ Return(IF zErr = "EOF" THEN "nil" ELSE zErr)
    /\ Do("error", PeekIndex(tb, pos, 0), <<>>)
    /\ UNCHANGED <<tb, z, zErr, m, mlog, rawTag, rawTagMediatype,
                   precededBySpace, defaultScriptType, defaultStyleType,
                   defaultInlineStyleType, attrIntBuffer, t, pass, w1, esc>>

DoctypeToken ==
    /\ pc = "loop"
    /\ Peek(0).TokenType = "DoctypeToken"
    /\ pos' = Shift
    /\ Do("doctype", PeekIndex(tb, pos, 0), <<"<!doctype html>">>)
    /\ UNCHANGED <<tb, z, zErr, m, mlog, rawTag, rawTagMediatype,
                   precededBySpace, defaultScriptType, defaultStyleType,
                   defaultInlineStyleType, attrIntBuffer, pc, t, ret, pass, w1, esc>>

\* both kinds of kept comment written between <!-- and -->
CommentBytesAllWrapped(data) ==
    IF HasPrefix(data, <<"[", "i", "f">>) \/ HasSuffix(data, <<"-", "-">>)
    THEN <<"<!--">> \o data \o <<"-->">>
    ELSE <<>>

CommentBytes(data) ==
    IF HasPrefix(data, <<"[", "i", "f">>) THEN <<"<!--">> \o data \o <<"-->">>
    ELSE IF HasSuffix(data, <<"-", "-">>) THEN <<"<!">> \o data \o <<">">>
    ELSE <<>>

CommentToken ==
    /\ pc = "loop"
    /\ Peek(0).TokenType = "CommentToken"
    /\ pos' = Shift
    /\ Do("comment", PeekIndex(tb, pos, 0), CommentBytes(Peek(0).Data))
    /\ UNCHANGED <<tb, z, zErr, m, mlog, rawTag, rawTagMediatype,
                   precededBySpace, defaultScriptType, defaultStyleType,
                   defaultInlineStyleType, attrIntBuffer, pc, t, ret, pass, w1, esc>>

\* a token type with no case in the switch: nothing happens
AttributeToken ==
    /\ pc = "loop"
    /\ Peek(0).TokenType = "AttributeToken"
    /\ pos' = Shift
    /\ Do("attribute", PeekIndex(tb, pos, 0), <<>>)
    /\ UNCHANGED <<tb, z, zErr, m, mlog, rawTag, rawTagMediatype,
                   precededBySpace, defaultScriptType, defaultStyleType,
                   defaultInlineStyleType, attrIntBuffer, pc, t, ret, pass, w1, esc>>

\* the media type of the text of the open raw tag
RawMediatype ==
    IF rawTag = "iframe" THEN TextHtml
    ELSE IF Len(rawTagMediatype) > 0 THEN rawTagMediatype
    ELSE IF rawTag = "script" THEN defaultScriptType
    ELSE IF rawTag = "style" THEN defaultStyleType
    ELSE IF rawTag = "svg" THEN ImageSvg
    ELSE IF rawTag = "math" THEN ApplicationMathml
    ELSE <<>>

\* ignore CDATA in embedded HTML
IsCdata(mediatype, data) ==
    LET trimmedData == Trim(data) IN
    /\ mediatype = TextHtml
    /\ Len(trimmedData) > 12
    /\ SubSeq(trimmedData, 1, 9) = CdataOpen
    /\ SubSeq(trimmedData, Len(trimmedData) - 2, Len(trimmedData)) = CdataClose

\* no minifier and nothing written in its place
RawWrittenOnlyMinified(data) == IF m = "strip" THEN MinifierOutput(data) ELSE <<>>

\* what m.Minify and the fallback write: the minified data, the original
\* when there is no minifier, nothing when the minifier fails
RawWritten(data) ==
    IF m = "strip" THEN MinifierOutput(data)
    ELSE IF m = "none" THEN data
    ELSE <<>>

\* a Text token while rawTag is set
RawText(tok, idx) ==
    IF rawTag \in {"style", "script", "iframe", "svg", "math"} THEN
        LET mediatype == RawMediatype
            cdata == IsCdata(mediatype, tok.Data)
            data == IF cdata THEN From(Trim(tok.Data), 9) ELSE tok.Data
            head == IF cdata THEN CdataOpen ELSE <<>>
            out == head \o RawWritten(data)
        IN  /\ Do("raw", idx, out)
            /\ mlog' = Append(mlog, mediatype)
            /\ IF m = "fail" THEN Return("ErrMinify") ELSE UNCHANGED <<pc, ret>>
            /\ UNCHANGED precededBySpace
    ELSE
        /\ Do("raw", idx, tok.Data)
        /\ UNCHANGED <<mlog, pc, ret, precededBySpace>>

\* whitespace removal; trim left
TrimLeftSpaceAlways(data) == IF data[1] = " " THEN Tail(data) ELSE data

TrimLeftSpace(data) ==
    IF precededBySpace /\ data[1] = " " THEN Tail(data) ELSE data

\* whitespace removal; trim right: [data, precededBySpace] after the decision
TrimRightSpaceKeepFlag(data, p) ==
    IF Len(data) = 0 THEN [data |-> data, precededBySpace |-> TRUE]
    ELSE IF data[Len(data)] = " " THEN
        IF TrimScan(tb, p, 0)
        THEN [data |-> SubSeq(data, 1, Len(data) - 1), precededBySpace |-> TRUE]
        ELSE [data |-> data, precededBySpace |-> TRUE]
    ELSE [data |-> data, precededBySpace |-> FALSE]

TrimRightSpace(data, p) ==
    IF Len(data) = 0 THEN [data |-> data, precededBySpace |-> TRUE]
    ELSE IF data[Len(data)] = " " THEN
        IF TrimScan(tb, p, 0)
        THEN [data |-> SubSeq(data, 1, Len(data) - 1), precededBySpace |-> FALSE]
        ELSE [data |-> data, precededBySpace |-> TRUE]
    ELSE [data |-> data, precededBySpace |-> FALSE]

\* a Text token while no raw tag is open
PlainText(tok, idx) ==
    LET data == ReplaceMultiple(tok.Data) IN
    IF Len(data) > 0 THEN
        LET r == TrimRightSpace(TrimLeftSpace(data), Shift) IN
        /\ precededBySpace' = r.precededBySpace
        /\ Do("text", idx, r.data)
        /\ UNCHANGED <<mlog, pc, ret>>
    ELSE
        /\ Do("text", idx, <<>>)
        /\ UNCHANGED <<mlog, pc, ret, precededBySpace>>

TextToken ==
    /\ pc = "loop"
    /\ Peek(0).TokenType = "TextToken"
    /\ pos' = Shift
    /\ IF rawTag # ""
       THEN RawText(Peek(0), PeekIndex(tb, pos, 0))
       ELSE PlainText(Peek(0), PeekIndex(tb, pos, 0))
    /\ UNCHANGED <<tb, z, zErr, m, rawTag, rawTagMediatype, defaultScriptType,
                   defaultStyleType, defaultInlineStyleType, attrIntBuffer,
                   t, pass, w1, esc>>

----------------------------------------------------------------------------
(* Start and end tags.                                                      *)

\* next := tb.Peek(0) after the tag was shifted
HasAttributes(tok, p) ==
    /\ tok.TokenType = "StartTagToken"
    /\ PeekAt(tb, p, 0).TokenType = "AttributeToken"

\* ignore empty script and style tags
ElidesPairAnyRaw(tok, p) ==
    /\ tok.Hash \notin inlineTagMap
    /\ tok.TokenType = "StartTagToken"
    /\ tok.Hash \in rawTagMap
    /\ ~HasAttributes(tok, p)
    /\ PeekAt(tb, p, 1).TokenType = "EndTagToken"

ElidesPair(tok, p) ==
    /\ tok.Hash \notin inlineTagMap
    /\ tok.TokenType = "StartTagToken"
    /\ tok.Hash \in rawTagMap
    /\ ~HasAttributes(tok, p)
    /\ tok.Hash \in {"script", "style"}
    /\ PeekAt(tb, p, 1).TokenType = "EndTagToken"

\* rawTag = t.Hash
OpensRaw(tok, p) ==
    /\ tok.Hash \notin inlineTagMap
    /\ tok.TokenType = "StartTagToken"
    /\ tok.Hash \in rawTagMap
    /\ ~ElidesPair(tok, p)

OmittedEndTags ==
    {"thead", "tbody", "tfoot", "tr", "th", "td", "optgroup", "option",
     "dd", "dt", "li", "rb", "rt", "rtc", "rp"}

StructureTags == {"html", "head", "body", "colgroup"}

\* remove superfluous ending tags
SuperfluousIgnoringAttributes(tok, p) ==
    /\ tok.Hash \notin inlineTagMap
    /\ \/ tok.Hash \in StructureTags
       \/ /\ tok.TokenType = "EndTagToken"
          /\ \/ tok.Hash \in OmittedEndTags
             \/ tok.Hash = "p" /\ EndPScan(tb, p, 0)

SuperfluousKeepingP(tok, p) ==
    /\ tok.Hash \notin inlineTagMap
    /\ \/ ~HasAttributes(tok, p) /\ tok.Hash \in StructureTags
       \/ /\ tok.TokenType = "EndTagToken"
          /\ tok.Hash \in OmittedEndTags

Superfluous(tok, p) ==
    /\ tok.Hash \notin inlineTagMap
    /\ \/ ~HasAttributes(tok, p) /\ tok.Hash \in StructureTags
       \/ /\ tok.TokenType = "EndTagToken"
          /\ \/ tok.Hash \in OmittedEndTags
             \/ tok.Hash = "p" /\ EndPScan(tb, p, 0)

\* write tag
TagBytes(tok) ==
    (IF tok.TokenType = "EndTagToken" THEN endBytes ELSE ltBytes) \o tok.Data

StartEndTagToken ==
    /\ pc = "loop"
    /\ Peek(0).TokenType \in {"StartTagToken", "EndTagToken"}
    /\ LET tok == Peek(0)
           idx == PeekIndex(tb, pos, 0)
           p == Shift
       IN
       /\ precededBySpace' = (tok.Hash \notin inlineTagMap \/ precededBySpace)
       /\ rawTag' = IF OpensRaw(tok, p) THEN tok.Hash ELSE ""
       /\ rawTagMediatype' = IF OpensRaw(tok, p) THEN <<>> ELSE rawTagMediatype
       /\ IF ElidesPair(tok, p) THEN
             /\ pos' = ShiftFrom(tb, ShiftFrom(tb, p))
             /\ Do("elided-pair", idx, <<>>)
             /\ UNCHANGED <<tb, attrIntBuffer, pc, t,
                            defaultScriptType, defaultStyleType,
                            defaultInlineStyleType>>
          ELSE IF Superfluous(tok, p) THEN
             /\ pos' = p
             /\ Do("elided-tag", idx, <<>>)
             /\ UNCHANGED <<tb, attrIntBuffer, pc, t,
                            defaultScriptType, defaultStyleType,
                            defaultInlineStyleType>>
          ELSE IF HasAttributes(tok, p) THEN
             LET r == RewriteAttributes(tok.Hash, tb, p, attrIntBuffer) IN
             /\ pos' = p
             /\ Do("tag", idx, TagBytes(tok))
             /\ tb' = r.tb
             /\ attrIntBuffer' = r.ib
             /\ defaultScriptType' = r.defaultScriptType
             /\ defaultStyleType' = r.defaultStyleType
             /\ defaultInlineStyleType' = r.defaultInlineStyleType
             /\ pc' = "attrs"
             /\ t' = tok
          ELSE
             /\ pos' = p
             /\ Do("tag", idx, TagBytes(tok) \o gtBytes)
             /\ UNCHANGED <<tb, attrIntBuffer, pc, t, defaultScriptType,
                            defaultStyleType, defaultInlineStyleType>>
    /\ UNCHANGED <<z, zErr, m, mlog, ret, pass, w1, esc>>

----------------------------------------------------------------------------
(* The attribute loop.                                                      *)

IsEventAttr(data) == data # <<>> /\ data[1] \in {"onclick", "onload"}

\* omit empty attribute values
OmitEmpty(attr, val) ==
    /\ Len(val) = 0
    /\ \/ attr.Hash \in {"class", "dir", "id", "lang", "name", "style", "title"}
       \/ attr.Hash = "action" /\ t.Hash = "form"
       \/ attr.Hash = "value" /\ t.Hash = "input"
       \/ IsEventAttr(attr.Data)

\* lower-casing and content type normalisation of the value
Normalized(attr, val) ==
    IF attr.Hash \in caseInsensitiveAttrMap THEN
        IF \/ attr.Hash \in {"enctype", "codetype", "accept"}
           \/ /\ attr.Hash = "type"
              /\ t.Hash \in {"a", "link", "object", "param", "script", "style", "source"}
        THEN NormalizeContentType(ToLower(val))
        ELSE ToLower(val)
    ELSE val

\* default attribute values can be omitted
IsDefault(attr, val) ==
    \/ /\ attr.Hash = "type"
       /\ \/ t.Hash = "script" /\ Equal(val, TextJavascript)
          \/ t.Hash = "style" /\ Equal(val, TextCss)
          \/ t.Hash = "link" /\ Equal(val, TextCss)
          \/ t.Hash = "input" /\ Equal(val, <<"t","e","x","t">>)
          \/ t.Hash = "button" /\ Equal(val, <<"s","u","b","m","i","t">>)
    \/ attr.Hash = "language" /\ t.Hash = "script"
    \/ attr.Hash = "method" /\ Equal(val, <<"g","e","t">>)
    \/ attr.Hash = "enctype"
       /\ Equal(val, <<"a","p","p","l","i","c","a","t","i","o","n","/","x","-",
                       "w","w","w","-","f","o","r","m","-",
                       "u","r","l","e","n","c","o","d","e","d">>)
    \/ attr.Hash = "colspan" /\ Equal(val, <<"1">>)
    \/ attr.Hash = "rowspan" /\ Equal(val, <<"1">>)
    \/ attr.Hash = "shape" /\ Equal(val, <<"r","e","c","t">>)
    \/ attr.Hash = "span" /\ Equal(val, <<"1">>)
    \/ attr.Hash = "clear" /\ Equal(val, <<"n","o","n","e">>)
    \/ attr.Hash = "frameborder" /\ Equal(val, <<"1">>)
    \/ attr.Hash = "scrolling" /\ Equal(val, <<"a","u","t","o">>)
    \/ attr.Hash = "valuetype" /\ Equal(val, <<"d","a","t","a">>)
    \/ attr.Hash = "media" /\ t.Hash = "style" /\ Equal(val, <<"a","l","l">>)

Javascript == <<"j","a","v","a","s","c","r","i","p","t",":">>

\* m.Minify(mediatype, attrMinifyBuffer, val) == nil ? the buffer : val
InlineMinified(val) == IF m = "strip" THEN MinifierOutput(val) ELSE val

\* CSS and JS minifiers for attribute inline code, and the URL scheme
InlineValueStrippingAnchors(attr, val) ==
    IF attr.Hash = "style" THEN InlineMinified(val)
    ELSE IF IsEventAttr(attr.Data) THEN
        InlineMinified(IF Len(val) >= 11
                          /\ EqualCaseInsensitive(SubSeq(val, 1, 11), Javascript)
                       THEN From(val, 11) ELSE val)
    ELSE IF attr.Hash \in urlAttrMap THEN StripScheme(val)
    ELSE val

InlineValue(attr, val) ==
    IF attr.Hash = "style" THEN InlineMinified(val)
    ELSE IF IsEventAttr(attr.Data) THEN
        InlineMinified(IF Len(val) >= 11
                          /\ EqualCaseInsensitive(SubSeq(val, 1, 11), Javascript)
                       THEN From(val, 11) ELSE val)
    ELSE IF t.Hash # "a" /\ attr.Hash \in urlAttrMap THEN StripScheme(val)
    ELSE val

\* the media type of an inline minifier call, <<>> when there is none
InlineMediatype(attr) ==
    IF attr.Hash = "style" THEN defaultInlineStyleType
    ELSE IF IsEventAttr(attr.Data) THEN defaultScriptType
    ELSE <<>>

AttributeLoop ==
    /\ pc = "attrs"
    /\ pos' = Shift
    /\ LET attr == Peek(0)
           idx == PeekIndex(tb, pos, 0)
           val == Normalized(attr, Unwrap(attr.AttrVal))
           hasValue == Len(val) > 0 /\ attr.Hash \notin booleanAttrMap
           e == escapeAttrVal(attr.AttrVal, InlineValue(attr, val))
           head == spaceBytes \o attr.Data
       IN
       IF attr.TokenType # "AttributeToken" THEN
          /\ Do("tag-close", idx, gtBytes)
          /\ pc' = "loop"
          /\ UNCHANGED <<mlog, rawTagMediatype, ret>>
       ELSE IF attr.Data = <<>> \/ OmitEmpty(attr, Unwrap(attr.AttrVal)) THEN
          /\ Do("attr-omitted", idx, <<>>)
          /\ UNCHANGED <<mlog, rawTagMediatype, pc, ret>>
       ELSE
          /\ rawTagMediatype' = IF rawTag # "" /\ attr.Hash = "type"
                                THEN val ELSE rawTagMediatype
          /\ IF IsDefault(attr, val) THEN
                /\ Do("attr-omitted", idx, <<>>)
                /\ UNCHANGED <<mlog, pc, ret>>
             ELSE IF ~hasValue THEN
                /\ Do("attr", idx, head)
                /\ UNCHANGED <<mlog, pc, ret>>
             ELSE
                /\ mlog' = IF attr.Hash = "style" \/ IsEventAttr(attr.Data)
                           THEN Append(mlog, InlineMediatype(attr)) ELSE mlog
                /\ IF e.panic THEN
                      /\ Do("attr", idx, head \o isBytes)
                      /\ Return("panic")
                   ELSE
                      /\ Do("attr", idx, head \o isBytes \o e.val)
                      /\ UNCHANGED <<pc, ret>>
    /\ UNCHANGED <<tb, z, zErr, m, rawTag, precededBySpace, defaultScriptType,
                   defaultStyleType, defaultInlineStyleType, attrIntBuffer,
                   t, pass, w1, esc>>

----------------------------------------------------------------------------
(* Specifications: Minify on every stream of a bounded set.                 *)

Streams(alphabet, n) == UNION {[1..k -> alphabet] : k \in 0..n}

IdleEsc == [state |-> "idle", orig |-> <<>>, b |-> <<>>, res |-> Returned(<<>>)]

InitMinify(streams, registries) ==
    /\ tb \in {s \o <<ErrorTok>> : s \in streams}
    /\ pos = 0
    /\ z = tb
    /\ zErr = "EOF"
    /\ m \in registries
    /\ w = <<>>
    /\ log = <<>>
    /\ mlog = <<>>
    /\ rawTag = ""
    /\ rawTagMediatype = <<>>
    /\ precededBySpace = TRUE
    /\ defaultScriptType = TextJavascript
    /\ defaultStyleType = TextCss
    /\ defaultInlineStyleType = TextCss \o InlineSuffix
    /\ attrIntBuffer = <<0, 0, 0, 0>>
    /\ pc = "loop"
    /\ t = ErrorTok
    /\ last = [op |-> "init", idx |-> 0, out |-> <<>>, pbs |-> TRUE]
    /\ ret = "running"
    /\ pass = 1
    /\ w1 = <<>>
    /\ esc = IdleEsc

Next ==
    \/ ErrorToken
    \/ DoctypeToken
    \/ CommentToken
    \/ AttributeToken
    \/ TextToken
    \/ StartEndTagToken
    \/ AttributeLoop

Hello == <<"H","e","l","l","o"," "," "," ","w","o","r","l","d">>
Hi == <<"H","i">>

\* streams of the documented scenarios, and one that has every token kind
ParagraphStream == <<StartTagTok("p"), TextTok(Hello), EndTagTok("p")>>

DocumentStream ==
    <<StartTagTok("html"), StartTagTok("head"), EndTagTok("head"),
      StartTagTok("body"), TextTok(Hi), EndTagTok("body"), EndTagTok("html")>>

Scenarios ==
    { ParagraphStream,
      DocumentStream,
      <<DoctypeTok, CommentTok(<<"x">>), StartTagTok("a"),
        AttributeTok("href", <<"x">>), StartTagTok("b"),
        AttributeTok("id", <<"y">>), TextTok(Hi)>> }

TagAlphabet ==
    { StartTagTok("html"), EndTagTok("html"), StartTagTok("colgroup"),
      StartTagTok("script"), EndTagTok("script"),
      StartTagTok("iframe"), EndTagTok("iframe"),
      StartTagTok("p"), EndTagTok("p"),
      AttributeTok("lang", <<"e","n">>), TextTok(Hi), DoctypeTok,
      CommentTok(<<"x">>), CommentTok(<<"[","i","f","]">>),
      CommentTok(<<"x","-","-">>) }

Init == InitMinify(Streams(TagAlphabet, MaxTokens) \cup Scenarios, {"none"})

Spec == Init /\ [][Next]_vars

----------------------------------------------------------------------------
(* Claims checked under Spec.                                               *)

\* the steps in which a token wrote itself (the closing > of a tag with
\* attributes belongs to the tag already written)
Writers == SelectSeq(log, LAMBDA s : s.out # <<>> /\ s.op # "tag-close")

\* C1: the tokens written to the sink come from input tokens in stream
\* order: the stream indices of the writing tokens increase strictly, so the
\* output tokens are a subsequence of the input tokens, none reordered and
\* none written twice.
C1_OutputIsSubsequence ==
    /\ \A i \in 1..Len(Writers) : Writers[i].idx \in 1..(Len(tb) - 1)
    /\ \A i \in 1..(Len(Writers) - 1) : Writers[i].idx < Writers[i + 1].idx

\* a finished run that wrote several tokens and dropped at least one
C1_Witness ==
    /\ pc = "done"
    /\ Len(Writers) >= 2
    /\ Len(Writers) < Len(tb) - 1

ParagraphOpen == <<"<", "p", ">", "H","e","l","l","o"," ","w","o","r","l","d">>

\* C3 as stated: StartTag p, Text "Hello   world", EndTag p writes
\* <p>Hello world</p>.
C3_ParagraphKeepsEndTag ==
    (pc = "done" /\ tb = ParagraphStream \o <<ErrorTok>>)
        => w = ParagraphOpen \o <<"</", "p", ">">>

\* C3 amended: StartTag p, Text "Hello   world", EndTag p, end-of-stream
\* writes <p>Hello world: the whitespace run is one space, the opening tag is
\* written and the end tag of p, followed by the end of the stream, is not.
C3_ParagraphCollapsed ==
    (pc = "done" /\ tb = ParagraphStream \o <<ErrorTok>>)
        => (w = ParagraphOpen /\ ret = "nil")

C3_Witness == pc = "done" /\ tb = ParagraphStream \o <<ErrorTok>>

TagSteps == {"tag", "elided-tag", "elided-pair"}

\* the tag at idx is a start tag followed by an Attribute token
CarriesAttribute(idx) ==
    /\ tb[idx].TokenType = "StartTagToken"
    /\ tb[idx + 1].TokenType = "AttributeToken"

\* C4: a start or end tag of html, head, body or colgroup that the token
\* switch handles is written if and only if it carries an attribute, so its
\* end tag is never written, and the document scenario writes exactly Hi.
C4_StructureTagsNeedAttribute ==
    /\ (last.op \in TagSteps /\ tb[last.idx].Hash \in StructureTags) =>
          IF CarriesAttribute(last.idx)
          THEN last.op = "tag" /\ last.out = <<"<", tb[last.idx].Hash>>
          ELSE last.op = "elided-tag" /\ last.out = <<>>
    /\ (pc = "done" /\ tb = DocumentStream \o <<ErrorTok>>) => w = Hi

\* an html start tag with an attribute has just been written
C4_Witness ==
    /\ last.op = "tag"
    /\ tb[last.idx].Hash = "html"
    /\ CarriesAttribute(last.idx)

RawKinds == {"script", "style", "iframe", "svg", "math"}

\* C5 as stated: a start tag of a raw-text element is discarded together with
\* the token after it exactly when that token is its matching end tag, and
\* then only the pair is consumed.
C5_EmptyRawPairElided ==
    (/\ last.op \in TagSteps
     /\ tb[last.idx].TokenType = "StartTagToken"
     /\ tb[last.idx].Hash \in RawKinds) =>
        /\ last.op = "elided-pair" <=>
              /\ tb[last.idx + 1].TokenType = "EndTagToken"
              /\ tb[last.idx + 1].Hash = tb[last.idx].Hash
        /\ last.op = "elided-pair" => pos = last.idx + 1

IsConditional(data) == HasPrefix(data, <<"[", "i", "f">>)

IsRevealed(data) == HasSuffix(data, <<"-", "-">>)

\* C10 as stated: a comment that begins with [if or ends with -- is written
\* as <!-- content -->, every other comment writes nothing.
C10_CommentsWrapped ==
    last.op = "comment" =>
        LET data == tb[last.idx].Data IN
        last.out = IF IsConditional(data) \/ IsRevealed(data)
                   THEN <<"<!--">> \o data \o <<"-->">>
                   ELSE <<>>

\* C10 amended: a comment that begins with [if is written as <!-- content -->;
\* one that does not but ends with -- is written as <! content >; every
\* other comment writes nothing.
C10_CommentsKept ==
    last.op = "comment" =>
        LET data == tb[last.idx].Data IN
        /\ IsConditional(data) => last.out = <<"<!--">> \o data \o <<"-->">>
        /\ (~IsConditional(data) /\ IsRevealed(data))
              => last.out = <<"<!">> \o data \o <<">">>
        /\ (~IsConditional(data) /\ ~IsRevealed(data)) => last.out = <<>>

\* a comment ending with -- has just been written
C10_Witness ==
    /\ last.op = "comment"
    /\ IsRevealed(tb[last.idx].Data)
    /\ last.out # <<>>

----------------------------------------------------------------------------
(* Claims about whitespace, checked under SpecText.                         *)

TextAlphabet ==
    { TextTok(<<"a">>), TextTok(<<" ", "a">>), TextTok(<<"a", "\n">>),
      TextTok(<<" ">>), TextTok(<<"a", "\t", " ", "b">>), TextTok(<<>>),
      StartTagTok("span"), EndTagTok("span"), StartTagTok("div"),
      CommentTok(<<"x">>) }

InitText ==
    InitMinify(Streams(TextAlphabet, MaxTextTokens) \cup Scenarios, {"none"})

SpecText == InitText /\ [][Next]_vars

\* what a step contributes to the text of the document: its bytes for a
\* Text token, nothing for a comment or an inline tag without attributes,
\* and a break for every other token
Barrier == <<"|">>

IsTransparent(s) ==
    \/ s.op = "comment"
    \/ s.op \in TagSteps /\ tb[s.idx].Hash \in inlineTagMap /\ ~CarriesAttribute(s.idx)

RECURSIVE InputText(_)
InputText(i) ==
    IF i > Len(log) THEN <<>>
    ELSE (IF log[i].op = "text" THEN tb[log[i].idx].Data
          ELSE IF IsTransparent(log[i]) THEN <<>>
          ELSE Barrier) \o InputText(i + 1)

RECURSIVE OutputText(_)
OutputText(i) ==
    IF i > Len(log) THEN <<>>
    ELSE (IF log[i].op = "text" THEN log[i].out
          ELSE IF IsTransparent(log[i]) THEN <<>>
          ELSE Barrier) \o OutputText(i + 1)

\* the text written by the Text tokens alone
RECURSIVE WrittenText(_)
WrittenText(i) ==
    IF i > Len(log) THEN <<>>
    ELSE (IF log[i].op = "text" THEN log[i].out ELSE <<>>) \o WrittenText(i + 1)

\* the positions of the bytes of s that are not whitespace, in order
RECURSIVE Marks(_, _)
Marks(s, i) ==
    IF i > Len(s) THEN <<>>
    ELSE (IF IsWhitespace(s[i]) THEN <<>> ELSE <<i>>) \o Marks(s, i + 1)

\* C6: outside raw-text elements, two text characters that follow each other
\* in the input with only whitespace, comments and inline tags between them
\* are written with exactly one space between them when the input had
\* whitespace there, and the Text tokens never write two spaces in a row.
C6_OneSpaceBetweenWords ==
    pc = "done" =>
        LET in == InputText(1)
            out == OutputText(1)
            mi == Marks(in, 1)
            mo == Marks(out, 1)
            txt == WrittenText(1)
        IN  /\ Len(mi) = Len(mo)
            /\ \A k \in 1..Len(mi) : in[mi[k]] = out[mo[k]]
            /\ \A k \in 1..(Len(mi) - 1) :
                  (/\ in[mi[k]] # "|"
                   /\ in[mi[k + 1]] # "|"
                   /\ mi[k + 1] - mi[k] > 1)
                  => /\ mo[k + 1] - mo[k] = 2
                     /\ out[mo[k] + 1] = " "
            /\ \A j \in 1..(Len(txt) - 1) : ~(txt[j] = " " /\ txt[j + 1] = " ")

\* a finished run in which two words were separated by whitespace spread
\* over several Text tokens
C6_Witness ==
    /\ pc = "done"
    /\ \E k \in 1..(Len(Marks(InputText(1), 1)) - 1) :
          LET in == InputText(1)
              mi == Marks(in, 1)
          IN  /\ in[mi[k]] # "|"
              /\ in[mi[k + 1]] # "|"
              /\ mi[k + 1] - mi[k] > 2
    /\ Len(SelectSeq(log, LAMBDA s : s.op = "text")) >= 3

\* the text of a Text token after collapsing and the trim on the left
Collapsed(s) ==
    LET data == ReplaceMultiple(tb[s.idx].Data) IN
    IF data # <<>> /\ s.pbs /\ data[1] = " " THEN Tail(data) ELSE data

\* index of the first token from i on that is neither an Attribute token nor
\* the end tag of an inline element
RECURSIVE FirstOther(_)
FirstOther(i) ==
    IF i >= Len(tb) THEN Len(tb)
    ELSE IF \/ tb[i].TokenType = "AttributeToken"
            \/ tb[i].TokenType = "EndTagToken" /\ tb[i].Hash \in inlineTagMap
         THEN FirstOther(i + 1)
         ELSE i

EndsInSpace(data) == data # <<>> /\ data[Len(data)] = " "

\* C7: when the collapsed text of a Text token outside a raw-text element
\* ends in a space, the space is removed if the first token after it that is
\* neither an Attribute token nor an inline end tag is the end of the stream,
\* a Text token starting with whitespace or a tag of a non-inline element,
\* and kept if it is a Text token starting with another character or the
\* start tag of an inline element; the scan consumes no token.
C7_TrailingSpaceDecision ==
    (last.op = "text" /\ EndsInSpace(Collapsed(last))) =>
        LET data == Collapsed(last)
            next == tb[FirstOther(last.idx + 1)]
        IN  /\ (\/ next.TokenType = "ErrorToken"
                \/ /\ next.TokenType = "TextToken"
                   /\ next.Data # <<>>
                   /\ IsWhitespace(next.Data[1])
                \/ /\ next.TokenType \in {"StartTagToken", "EndTagToken"}
                   /\ next.Hash \notin inlineTagMap)
               => last.out = SubSeq(data, 1, Len(data) - 1)
            /\ (\/ /\ next.TokenType = "TextToken"
                   /\ next.Data # <<>>
                   /\ ~IsWhitespace(next.Data[1])
                \/ /\ next.TokenType = "StartTagToken"
                   /\ next.Hash \in inlineTagMap)
               => last.out = data
            /\ pos = last.idx

\* a trailing space was removed because of a token found behind an inline
\* end tag
C7_Witness ==
    /\ last.op = "text"
    /\ EndsInSpace(Collapsed(last))
    /\ FirstOther(last.idx + 1) > last.idx + 1
    /\ tb[FirstOther(last.idx + 1)].TokenType = "TextToken"
    /\ last.out = SubSeq(Collapsed(last), 1, Len(Collapsed(last)) - 1)

----------------------------------------------------------------------------
(* escapeAttrVal on its own: SpecEscape calls it once on every pair of an   *)
(* original value and its logical value that a tokenizer can hand over.     *)

Pieces ==
    { <<"a">>, <<"\"">>, <<"'">>, <<" ">>, <<"=">>, <<"&">>,
      <<"&","#","3","4",";">>, <<"&","#","0","3","9",";">>,
      <<"&","q","u","o","t",";">>, <<"&","a","p","o","s",";">>,
      <<"&","#","x","2","2",";">>, <<"&","#","x","0","2","7",";">> }

RECURSIVE Concat(_)
Concat(parts) == IF parts = <<>> THEN <<>> ELSE Head(parts) \o Concat(Tail(parts))

Values == {Concat(parts) : parts \in UNION {[1..k -> Pieces] : k \in 1..MaxParts}}

Contains(b, c) == \E i \in 1..Len(b) : b[i] = c

\* the raw values whose logical value is b: b itself where it can stand
\* unquoted, and b inside a quote pair that does not occur in it, with or
\* without padding
Originals(b) ==
    (IF \A i \in 1..Len(b) : ~IsWhitespace(b[i]) /\ b[i] # ">"
     THEN IF b[1] \in {"\"", "'"} THEN {} ELSE {b}
     ELSE {})
    \cup
    (IF Trim(b) = b
     THEN UNION { { <<q>> \o b \o <<q>>, <<q, " ">> \o b \o <<q>> } :
                  q \in {c \in {"\"", "'"} : ~Contains(b, c)} }
     ELSE {})

InitEscape ==
    /\ tb = <<ErrorTok>>
    /\ pos = 0
    /\ z = tb
    /\ zErr = "EOF"
    /\ m = "none"
    /\ w = <<>> /\ log = <<>> /\ mlog = <<>> /\ rawTag = "" /\ rawTagMediatype = <<>>
    /\ precededBySpace = TRUE
    /\ defaultScriptType = TextJavascript
    /\ defaultStyleType = TextCss
    /\ defaultInlineStyleType = TextCss \o InlineSuffix
    /\ attrIntBuffer = <<0, 0, 0, 0>>
    /\ pc = "done"
    /\ t = ErrorTok
    /\ last = [op |-> "init", idx |-> 0, out |-> <<>>, pbs |-> TRUE]
    /\ ret = "running"
    /\ pass = 1
    /\ w1 = <<>>
    /\ \E b \in Values : \E orig \in Originals(b) :
          esc = [state |-> "call", orig |-> orig, b |-> b, res |-> Returned(<<>>)]

CallEscapeAttrVal ==
    /\ esc.state = "call"
    /\ esc' = [esc EXCEPT !.state = "returned",
                          !.res = escapeAttrVal(esc.orig, esc.b)]
    /\ UNCHANGED <<tb, pos, z, zErr, m, w, log, mlog, rawTag, rawTagMediatype,
                   precededBySpace, defaultScriptType, defaultStyleType,
                   defaultInlineStyleType, attrIntBuffer, pc, t, last, ret,
                   pass, w1>>

NextEscape == CallEscapeAttrVal

SpecEscape == InitEscape /\ [][NextEscape]_vars

\* quote entities as the claims list them: &#34; &#x22; &quot; for the
\* double quote and &#39; &#x27; &apos; for the single quote, the numeric
\* forms with optional zero padding
AllZeros(s) == \A i \in 1..Len(s) : s[i] = "0"

IsEntity(s, dec, hex, name) ==
    \/ s = <<"&">> \o name \o <<";">>
    \/ /\ Len(s) >= 5
       /\ SubSeq(s, 1, 2) = <<"&", "#">>
       /\ SubSeq(s, Len(s) - 2, Len(s)) = dec \o <<";">>
       /\ AllZeros(SubSeq(s, 3, Len(s) - 3))
    \/ /\ Len(s) >= 6
       /\ SubSeq(s, 1, 3) = <<"&", "#", "x">>
       /\ SubSeq(s, Len(s) - 2, Len(s)) = hex \o <<";">>
       /\ AllZeros(SubSeq(s, 4, Len(s) - 3))

IsDoubleEntity(s) == IsEntity(s, <<"3","4">>, <<"2","2">>, <<"q","u","o","t">>)

IsSingleEntity(s) == IsEntity(s, <<"3","9">>, <<"2","7">>, <<"a","p","o","s">>)

LiteralCount(b, c) == Cardinality({i \in 1..Len(b) : b[i] = c})

DoubleEntities(b) ==
    Cardinality({i \in 1..Len(b) : \E j \in i..Len(b) : IsDoubleEntity(SubSeq(b, i, j))})

SingleEntities(b) ==
    Cardinality({i \in 1..Len(b) : \E j \in i..Len(b) : IsSingleEntity(SubSeq(b, i, j))})

\* a value that cannot stand unquoted
NeedsQuotes(b) ==
    \/ \E i \in 1..Len(b) :
          b[i] \in {"\"", "'", Backtick, "<", "=", ">"} \/ IsWhitespace(b[i])
    \/ DoubleEntities(b) + SingleEntities(b) > 0

WrappedIn(val, q) == Len(val) >= 2 /\ val[1] = q /\ val[Len(val)] = q

ReusesOriginal(orig, b) ==
    /\ LiteralCount(b, "\"") + DoubleEntities(b) = 0
    /\ LiteralCount(b, "'") + SingleEntities(b) = 0
    /\ Len(orig) = Len(b) + 2

C9_UnquotedIffPlain ==
    esc.state = "returned" =>
        IF NeedsQuotes(esc.b)
        THEN /\ ~esc.res.panic
             /\ WrappedIn(esc.res.val, "\"") \/ WrappedIn(esc.res.val, "'")
        ELSE esc.res = Returned(esc.b)


----------------------------------------------------------------------------
(* Minify run on its own output: the bytes written by the first run are     *)
(* tokenized again and minified by a second run.                            *)

\* the first index from i on at which s holds a chunk of stops, Len(s) + 1
\* when there is none
RECURSIVE IndexOfAny(_, _, _)
IndexOfAny(s, i, stops) ==
    IF i > Len(s) \/ s[i] \in stops THEN i ELSE IndexOfAny(s, i + 1, stops)

Openers == {"<", "</", "<!--", "<!doctype html>"}

\* the tokens of the written bytes s from index i on: markup as Minify
\* writes it, a quoted attribute value kept with its quotes in AttrVal
RECURSIVE Tokenize(_, _)
RECURSIVE TokenizeAttributes(_, _)
Tokenize(s, i) ==
    IF i > Len(s) THEN <<>>
    ELSE IF s[i] = "<!doctype html>" THEN <<DoctypeTok>> \o Tokenize(s, i + 1)
    ELSE IF s[i] = "<!--" THEN
        LET e == IndexOfAny(s, i + 1, {"-->"}) IN
        <<CommentTok(SubSeq(s, i + 1, e - 1))>> \o Tokenize(s, e + 1)
    ELSE IF s[i] = "</" THEN <<EndTagTok(s[i + 1])>> \o Tokenize(s, i + 3)
    ELSE IF s[i] = "<" THEN <<StartTagTok(s[i + 1])>> \o TokenizeAttributes(s, i + 2)
    ELSE LET e == IndexOfAny(s, i, Openers) IN
         <<TextTok(SubSeq(s, i, e - 1))>> \o Tokenize(s, e)

TokenizeAttributes(s, i) ==
    IF i > Len(s) THEN <<>>
    ELSE IF s[i] # " " THEN Tokenize(s, i + 1)
    ELSE IF i + 2 <= Len(s) /\ s[i + 2] = "=" THEN
        IF i + 3 <= Len(s) /\ s[i + 3] \in {"\"", "'"} THEN
            LET e == IndexOfAny(s, i + 4, {s[i + 3]}) IN
            <<AttributeTok(s[i + 1], SubSeq(s, i + 3, e))>>
                \o TokenizeAttributes(s, e + 1)
        ELSE
            LET e == IndexOfAny(s, i + 3, {" ", ">"}) IN
            <<AttributeTok(s[i + 1], SubSeq(s, i + 3, e - 1))>>
                \o TokenizeAttributes(s, e)
    ELSE <<AttributeTok(s[i + 1], <<>>)>> \o TokenizeAttributes(s, i + 2)

\* the second run: Minify is called on the bytes the first run wrote
Reminify ==
    /\ pc = "done"
    /\ pass = 1
    /\ ret = "nil"
    /\ pass' = 2
    /\ w1' = w
    /\ tb' = Tokenize(w, 1) \o <<ErrorTok>>
    /\ z' = Tokenize(w, 1) \o <<ErrorTok>>
    /\ pos' = 0
    /\ w' = <<>>
    /\ log' = <<>>
    /\ mlog' = <<>>
    /\ rawTag' = ""
    /\ rawTagMediatype' = <<>>
    /\ precededBySpace' = TRUE
    /\ defaultScriptType' = TextJavascript
    /\ defaultStyleType' = TextCss
    /\ defaultInlineStyleType' = TextCss \o InlineSuffix
    /\ attrIntBuffer' = <<0, 0, 0, 0>>
    /\ pc' = "loop"
    /\ t' = ErrorTok
    /\ last' = [op |-> "init", idx |-> 0, out |-> <<>>, pbs |-> TRUE]
    /\ ret' = "running"
    /\ UNCHANGED <<zErr, m, esc>>

NextTwice ==
    \/ Next
    \/ Reminify

HttpHttpX == <<"h","t","t","p",":","h","t","t","p",":","x">>
HttpsX == <<"h","t","t","p","s",":","/","/","x">>

\* the pieces of a document: tags with and without an attribute, text,
\* doctype and comments, and an attribute token that follows no tag
Elements ==
    { <<StartTagTok("a"), AttributeTok("href", HttpHttpX)>>,
      <<StartTagTok("a"), AttributeTok("href", HttpsX)>>,
      <<StartTagTok("img"), AttributeTok("src", HttpsX)>>,
      <<StartTagTok("a"), AttributeTok("title", <<"'", "a", " ", "b", "'">>)>>,
      <<StartTagTok("p")>>, <<EndTagTok("p")>>, <<EndTagTok("a")>>,
      <<StartTagTok("body")>>, <<EndTagTok("body")>>,
      <<TextTok(Hi)>>, <<TextTok(<<" ", " ", "H", "i", " ">>)>>,
      <<DoctypeTok>>, <<CommentTok(<<"x">>)>>,
      <<CommentTok(<<"[","i","f","]">>)>>,
      <<AttributeTok("id", <<"y">>)>> }

Documents ==
    {Concat(parts) : parts \in UNION {[1..k -> Elements] : k \in 0..MaxTokens}}

InitTwice == InitMinify(Documents, {"none"})

SpecTwice == InitTwice /\ [][NextTwice]_vars

\* C2: Minify is idempotent: the second run, on the bytes the first run
\* wrote, writes exactly those bytes again.
C2_Idempotent ==
    (pass = 2 /\ pc = "done" /\ ret = "nil") => w = w1

----------------------------------------------------------------------------
(* Raw text: Minify on documents of raw-text elements, under every          *)
(* registry.                                                                *)

MaxElements == 3

TypeX == AttributeTok("type", <<"\"", "T", "/", "X", "\"">>)

\* the pieces of a document with raw text: raw start tags with and without
\* a type attribute, text, and the other token kinds
RawElements ==
    { <<StartTagTok("script")>>,
      <<StartTagTok("script"), TypeX>>,
      <<StartTagTok("script"), TypeX, CommentTok(<<"x">>)>>,
      <<StartTagTok("iframe"), TypeX, CommentTok(<<"x">>)>>,
      <<StartTagTok("iframe")>>,
      <<StartTagTok("style")>>,
      <<StartTagTok("svg")>>,
      <<StartTagTok("pre")>>,
      <<TextTok(<<"a", " ", " ", "b">>)>>,
      <<TextTok(<<" ">> \o CdataOpen \o <<"a">> \o CdataClose \o <<" ">>)>>,
      <<EndTagTok("script")>>,
      <<DoctypeTok>>,
      <<AttributeTok("type", <<"y">>)>> }

RawDocuments ==
    {Concat(parts) : parts \in UNION {[1..k -> RawElements] : k \in 0..MaxElements}}

InitRaw == InitMinify(RawDocuments, Registries)

SpecRaw == InitRaw /\ [][Next]_vars

\* the stream index of the tag the main loop handled last, 0 when none
RECURSIVE LastTagIndex(_)
LastTagIndex(n) ==
    IF n = 0 THEN 0
    ELSE IF log[n].op \in {"tag", "elided-tag", "elided-pair"} THEN log[n].idx
    ELSE LastTagIndex(n - 1)

\* the logical value of the last type attribute in the attribute run of the
\* start tag at j, <<>> when the run has none
RECURSIVE TypeOverride(_, _, _)
TypeOverride(j, k, found) ==
    IF k > Len(tb) \/ tb[k].TokenType # "AttributeToken" THEN found
    ELSE IF tb[k].Hash = "type" THEN
        LET v == ToLower(Unwrap(tb[k].AttrVal)) IN
        TypeOverride(j, k + 1,
                     IF tb[j].Hash \in {"script", "style"}
                     THEN NormalizeContentType(v) ELSE v)
    ELSE TypeOverride(j, k + 1, found)

FixedMediatype(hash) ==
    IF hash = "iframe" THEN TextHtml
    ELSE IF hash = "script" THEN defaultScriptType
    ELSE IF hash = "style" THEN defaultStyleType
    ELSE IF hash = "svg" THEN ImageSvg
    ELSE ApplicationMathml

DispatchedKinds == {"style", "script", "iframe", "svg", "math"}

\* C11: the media type passed to the registry for the text of an open
\* raw-text element is the override recorded from the type attribute of that
\* element's start tag when there is one, for every raw-text kind including
\* iframe, and the fixed mapping of the kind otherwise.
C11_OverrideBeforeMapping ==
    (last.op = "raw" /\ rawTag \in DispatchedKinds) =>
        LET j == LastTagIndex(Len(log))
            o == TypeOverride(j, j + 1, <<>>)
        IN  /\ j > 0
            /\ tb[j].Hash = rawTag
            /\ mlog # <<>>
            /\ mlog[Len(mlog)] = IF o # <<>> THEN o ELSE FixedMediatype(rawTag)

----------------------------------------------------------------------------
(* Default media types: Minify on documents with meta tags, script and      *)
(* style text and inline code in attributes.                                *)

StyleTypeName ==
    <<"c","o","n","t","e","n","t","-","s","t","y","l","e","-","t","y","p","e">>

MetaScriptType ==
    <<StartTagTok("meta"), AttributeTok("content", <<"t", "/", "y">>),
      AttributeTok("http-equiv",
                   <<"\"", "C","o","n","t","e","n","t","-","S","c","r","i","p","t","-",
                     "T","y","p","e", "\"">>),
      CommentTok(<<"x">>)>>

MetaStyleType ==
    <<StartTagTok("meta"), AttributeTok("http-equiv", StyleTypeName),
      AttributeTok("content", <<"t", "/", "z">>), CommentTok(<<"x">>)>>

\* a meta with neither content nor http-equiv
MetaNamed ==
    <<StartTagTok("meta"), AttributeTok("charset", <<"c", "/", "d">>),
      AttributeTok("name", StyleTypeName), CommentTok(<<"x">>)>>

MetaElements ==
    { MetaScriptType, MetaStyleType, MetaNamed,
      <<StartTagTok("script")>>, <<StartTagTok("style")>>,
      <<TextTok(<<"a">>)>>,
      <<StartTagTok("p"), AttributeTok("onclick", <<"f">>)>>,
      <<StartTagTok("p"), AttributeTok("style", <<"s">>)>>,
      <<DoctypeTok>>, <<CommentTok(<<"x">>)>>,
      <<AttributeTok("id", <<"y">>)>> }

MetaDocuments ==
    {Concat(parts) : parts \in UNION {[1..k -> MetaElements] : k \in 0..MaxElements}}

InitMeta == InitMinify(MetaDocuments, {"none"})

SpecMeta == InitMeta /\ [][Next]_vars

\* the value of the attribute named hash in the attribute run that starts at
\* k, <<>> when the run has none
RECURSIVE OwnAttribute(_, _)
OwnAttribute(k, hash) ==
    IF k > Len(tb) \/ tb[k].TokenType # "AttributeToken" THEN <<>>
    ELSE IF tb[k].Hash = hash THEN <<Unwrap(tb[k].AttrVal)>>
    ELSE OwnAttribute(k + 1, hash)

\* the defaults after the first n steps, by document order: those of the
\* last meta tag handled that carries content and the http-equiv in question
RECURSIVE DefaultsByOrder(_)
DefaultsByOrder(n) ==
    IF n = 0
    THEN [script |-> TextJavascript, style |-> TextCss,
          inline |-> TextCss \o InlineSuffix]
    ELSE LET d == DefaultsByOrder(n - 1)
             j == log[n].idx
             content == OwnAttribute(j + 1, "content")
             equiv == OwnAttribute(j + 1, "http-equiv")
         IN  IF /\ log[n].op = "tag"
                /\ tb[j].TokenType = "StartTagToken"
                /\ tb[j].Hash = "meta"
                /\ content # <<>>
                /\ equiv # <<>>
             THEN LET x == NormalizeContentType(content[1]) IN
                  IF EqualCaseInsensitive(equiv[1], StyleTypeName)
                  THEN [d EXCEPT !.style = x, !.inline = x \o InlineSuffix]
                  ELSE IF EqualCaseInsensitive(equiv[1], ContentScriptType)
                  THEN [d EXCEPT !.script = x]
                  ELSE d
             ELSE d

\* the step wrote an attribute together with a value
WroteValue == last.op = "attr" /\ Len(last.out) > 2

\* C12: the defaults are those set by the meta tags with content and
\* http-equiv handled so far, in document order, and change in no other
\* way; script text and event-handler attributes are dispatched with the
\* script default, style text with the style default and style attributes
\* with the inline style default.
C12_DefaultsFollowOrder ==
    LET d == DefaultsByOrder(Len(log)) IN
    /\ defaultScriptType = d.script
    /\ defaultStyleType = d.style
    /\ defaultInlineStyleType = d.inline
    /\ (last.op = "raw" /\ rawTag = "script" /\ rawTagMediatype = <<>>)
          => mlog[Len(mlog)] = d.script
    /\ (last.op = "raw" /\ rawTag = "style" /\ rawTagMediatype = <<>>)
          => mlog[Len(mlog)] = d.style
    /\ (WroteValue /\ IsEventAttr(tb[last.idx].Data))
          => mlog[Len(mlog)] = d.script
    /\ (WroteValue /\ tb[last.idx].Hash = "style")
          => mlog[Len(mlog)] = d.inline

\* the text is a CDATA section once its surrounding whitespace is trimmed
IsWrapped(data) ==
    /\ Len(Trim(data)) > 12
    /\ HasPrefix(Trim(data), CdataOpen)
    /\ HasSuffix(Trim(data), CdataClose)

\* the last step dispatched raw text to the registry
Dispatched == last.op = "raw" /\ rawTag \in DispatchedKinds

\* C13 as stated: when the registry has no minifier for the media type the
\* content of the Text token is written unmodified and processing continues;
\* when it returns another error Minify returns it and writes nothing more.
C13_UnmodifiedOrAbort ==
    /\ (Dispatched /\ m = "none") =>
          /\ last.out = tb[last.idx].Data
          /\ pc = "loop"
          /\ ret = "running"
    /\ (Dispatched /\ m = "fail") =>
          /\ pc = "done"
          /\ ret = "ErrMinify"
    /\ ret = "ErrMinify" =>
          /\ Dispatched
          /\ log[Len(log)] = last

\* C13 amended: when the registry has no minifier, the bytes written for the
\* Text token are its content unmodified, except that content dispatched as
\* text/html that is a CDATA section once trimmed is written trimmed of its
\* surrounding whitespace; processing continues.  When the registry returns
\* another error Minify returns that error and the dispatching step is the
\* last one that writes.
C13_PassedOnOrAbort ==
    /\ (Dispatched /\ m = "none") =>
          /\ last.out = IF mlog[Len(mlog)] = TextHtml /\ IsWrapped(tb[last.idx].Data)
                        THEN Trim(tb[last.idx].Data)
                        ELSE tb[last.idx].Data
          /\ pc = "loop"
          /\ ret = "running"
    /\ (Dispatched /\ m = "fail") =>
          /\ pc = "done"
          /\ ret = "ErrMinify"
    /\ ret = "ErrMinify" =>
          /\ Dispatched
          /\ log[Len(log)] = last
          /\ last.out \in {<<>>, CdataOpen}

\* a finished run without minifiers in which the text of a raw element was
\* written unmodified and more was written after it
C13_Witness ==
    /\ m = "none"
    /\ pc = "done"
    /\ Len(mlog) >= 2
    /\ \E n \in 1..(Len(log) - 1) :
          /\ log[n].op = "raw"
          /\ log[n].out = tb[log[n].idx].Data
          /\ log[n].out # <<>>
          /\ tb[LastTagIndex(n)].Hash \in DispatchedKinds
          /\ \E k \in (n + 1)..Len(log) : log[k].out # <<>>

----------------------------------------------------------------------------
(* Termination: Minify on finite streams that end cleanly or with a         *)
(* tokenizer error, under every registry; the token loop keeps running      *)
(* until it returns.                                                        *)

LiveElements ==
    { <<StartTagTok("a"), AttributeTok("title", <<"a", "\"", "'">>)>>,
      <<StartTagTok("a"), AttributeTok("href", <<"x">>)>>,
      <<StartTagTok("p"), AttributeTok("style", <<"s">>)>>,
      <<StartTagTok("p")>>, <<EndTagTok("p")>>,
      <<StartTagTok("script")>>,
      <<TextTok(<<"a", " ">>)>>,
      <<DoctypeTok>>, <<CommentTok(<<"x">>)>>,
      <<AttributeTok("id", <<"y">>)>> }

LiveDocuments ==
    {Concat(parts) : parts \in UNION {[1..k -> LiveElements] : k \in 0..MaxElements}}

InitLive ==
    /\ tb \in {s \o <<ErrorTok>> : s \in LiveDocuments}
    /\ pos = 0
    /\ z = tb
    /\ zErr \in {"EOF", "ErrRead"}
    /\ m \in Registries
    /\ w = <<>> /\ log = <<>> /\ mlog = <<>> /\ rawTag = "" /\ rawTagMediatype = <<>>
    /\ precededBySpace = TRUE
    /\ defaultScriptType = TextJavascript
    /\ defaultStyleType = TextCss
    /\ defaultInlineStyleType = TextCss \o InlineSuffix
    /\ attrIntBuffer = <<0, 0, 0, 0>>
    /\ pc = "loop"
    /\ t = ErrorTok
    /\ last = [op |-> "init", idx |-> 0, out |-> <<>>, pbs |-> TRUE]
    /\ ret = "running"
    /\ pass = 1
    /\ w1 = <<>>
    /\ esc = IdleEsc

SpecLive == InitLive /\ [][Next]_vars /\ WF_vars(Next)

\* the source ended cleanly and no minifier call failed
CleanRun == zErr = "EOF" /\ ~(m = "fail" /\ mlog # <<>>)

\* C14: Minify eventually returns, having consumed the stream up to its
\* Error token, and its result is nil exactly when the source ended with a
\* clean end of input and every minifier call succeeded (the sink of the
\* model never fails).
C14_EventuallyReturns ==
    <>( /\ pc = "done"
        /\ ret # "panic"
        /\ (ret = "nil") <=> CleanRun
        /\ (ret = "nil") => pos >= Len(tb) )

----------------------------------------------------------------------------
(* Claims about precededBySpace, checked under SpecText.                    *)

\* the text of the token of step s with every whitespace run made one space
Whole(s) == ReplaceMultiple(tb[s.idx].Data)

\* C15 as stated: after a Text token outside a raw-text element,
\* precededBySpace is true exactly when the collapsed text of the token ended
\* in a space, whether that space was written or trimmed.
C15_FlagIffEndsInSpace ==
    last.op = "text" => (precededBySpace <=> EndsInSpace(Whole(last)))

\* C15 amended: after a Text token outside a raw-text element whose
\* collapsed text is not empty, precededBySpace is true exactly when the
\* collapsed text ended in a space and that space was not trimmed by the
\* trailing-space decision; a Text token whose collapsed text is empty
\* leaves precededBySpace as it was.
C15_FlagIffSpaceNotTrimmed ==
    last.op = "text" =>
        IF Whole(last) = <<>>
        THEN precededBySpace = last.pbs
        ELSE precededBySpace <=>
                (EndsInSpace(Whole(last)) /\ Len(last.out) = Len(Collapsed(last)))

\* a trailing space was trimmed in front of a Text token that starts with
\* whitespace, and precededBySpace is false for that token
C15_Witness ==
    /\ last.op = "text"
    /\ EndsInSpace(Collapsed(last))
    /\ Len(last.out) = Len(Collapsed(last)) - 1
    /\ tb[last.idx + 1].TokenType = "TextToken"
    /\ tb[last.idx + 1].Data # <<>>
    /\ IsWhitespace(tb[last.idx + 1].Data[1])
    /\ ~precededBySpace

----------------------------------------------------------------------------
(* End tags of p: Minify on every stream of a bounded set of tags, text     *)
(* and comments.                                                            *)

EndPAlphabet ==
    { StartTagTok("p"), EndTagTok("p"), EndTagTok("a"), EndTagTok("div"),
      StartTagTok("div"), StartTagTok("span"),
      TextTok(<<"\n", " ">>), TextTok(<<>>), TextTok(<<"a">>),
      CommentTok(<<"x">>), DoctypeTok, AttributeTok("id", <<"y">>) }

InitEndP == InitMinify(Streams(EndPAlphabet, MaxTokens), {"none"})

SpecEndP == InitEndP /\ [][Next]_vars

\* index of the first token from i on that is not a Text token of
\* whitespace only, the index of the Error token when there is none
RECURSIVE FirstMeaningful(_)
FirstMeaningful(i) ==
    IF i >= Len(tb) THEN Len(tb)
    ELSE IF /\ tb[i].TokenType = "TextToken"
            /\ \A k \in 1..Len(tb[i].Data) : IsWhitespace(tb[i].Data[k])
         THEN FirstMeaningful(i + 1)
         ELSE i

\* C16: an end tag of p is elided if and only if the first token after it
\* that is not a Text token of whitespace only is the end of the stream, an
\* end tag other than that of a, or the start tag of a block element;
\* otherwise </p> is written; the scan consumes no token.
C16_EndTagPElision ==
    (last.op \in TagSteps /\ tb[last.idx] = EndTagTok("p")) =>
        LET next == tb[FirstMeaningful(last.idx + 1)] IN
        /\ IF \/ next.TokenType = "ErrorToken"
              \/ next.TokenType = "EndTagToken" /\ next.Hash # "a"
              \/ next.TokenType = "StartTagToken" /\ next.Hash \in blockTagMap
           THEN last.op = "elided-tag" /\ last.out = <<>>
           ELSE last.op = "tag" /\ last.out = <<"</", "p", ">">>
        /\ pos = last.idx

\* an end tag of p was written because whitespace and then </a> follow it
C16_Witness ==
    /\ last.op = "tag"
    /\ tb[last.idx] = EndTagTok("p")
    /\ last.out = <<"</", "p", ">">>
    /\ FirstMeaningful(last.idx + 1) > last.idx + 1
    /\ tb[FirstMeaningful(last.idx + 1)] = EndTagTok("a")

----------------------------------------------------------------------------
(* Attributes: Minify on documents of tags with attributes, some of them    *)
(* fetched by getAttributes before they are written.                        *)

QuotedX == <<"\"", "'", "x", "'", "\"">>

AttrElements ==
    { <<StartTagTok("script"), AttributeTok("src", <<"a">>)>>,
      <<StartTagTok("script"), AttributeTok("charset", <<"u">>)>>,
      <<StartTagTok("a"), AttributeTok("href", QuotedX)>>,
      <<StartTagTok("a"), AttributeTok("title", QuotedX)>>,
      <<StartTagTok("a"), AttributeTok("id", <<"\"", "y", " ", "\"">>),
        AttributeTok("title", <<"z">>)>>,
      <<StartTagTok("meta"), AttributeTok("name", <<"n">>)>>,
      <<EndTagTok("a")>>,
      <<TextTok(Hi)>>,
      <<DoctypeTok>>, <<CommentTok(<<"[","i","f","]">>)>>,
      <<AttributeTok("id", <<"y">>)>> }

AttrDocuments ==
    {Concat(parts) : parts \in UNION {[1..k -> AttrElements] : k \in 0..MaxElements}}

InitAttrs == InitMinify(AttrDocuments, {"none"})

SpecAttrs == InitAttrs /\ [][Next]_vars

\* the attribute names getAttributes is asked for, by tag
Requested(hash) ==
    IF hash = "a" THEN <<"id", "name", "rel", "href">>
    ELSE IF hash = "meta" THEN <<"content", "http-equiv", "charset", "name">>
    ELSE <<"src", "charset">>

\* the stream indices of the attribute run of the tag at j
AttributeRun(j) ==
    {i \in (j + 1)..Len(tb) :
        \A k \in (j + 1)..i : tb[k].TokenType = "AttributeToken"}

\* the start tag of an a, meta or script with attributes has just been
\* written and its attributes fetched
Fetched ==
    /\ last.op = "tag"
    /\ pc = "attrs"
    /\ t.Hash \in {"a", "meta", "script"}

\* C17: for each name it is asked for, getAttributes returns a token of that
\* name from the attribute run of the current tag, and none when the run has
\* no attribute of that name, whatever tags were processed before.
C17_OwnAttributesOnly ==
    Fetched =>
        \A j \in 1..Len(Requested(t.Hash)) :
            LET k == attrIntBuffer[j]
                own == {i \in AttributeRun(last.idx) :
                           tb[i].Hash = Requested(t.Hash)[j]}
            IN  IF own = {} THEN k = 0 ELSE last.idx + k \in own

\* the value the last step wrote behind the = of an attribute
WrittenValue == SubSeq(last.out, 4, Len(last.out))

\* C18: the quote pair around an attribute value is removed once, whether or
\* not getAttributes fetched the attribute: the value written (for values
\* that no rewrite changes) is the raw value the tokenizer delivered with one
\* quote pair removed and trimmed, unquoted or in a quote pair of its own,
\* so a value that starts with a quote inside its quote pair keeps it.
C18_UnwrappedOnce ==
    (WroteValue /\ ret # "panic") =>
        Unwrap(WrittenValue) = Unwrap(z[last.idx].AttrVal)

----------------------------------------------------------------------------
(* The buffer of escapeAttrVal, checked under SpecEscape.                   *)

\* C19: in the requoting path of escapeAttrVal the rebuilt value fits the
\* len(b)+2 bytes reserved for it: the write index stays below len(b)+2
\* until the closing quote is stored, so the call returns a value of at most
\* len(b)+2 bytes that starts and ends with the chosen quote.
C19_RebuiltValueFits ==
    (/\ esc.state = "returned"
     /\ NeedsQuotes(esc.b)
     /\ ~ReusesOriginal(esc.orig, esc.b)) =>
        /\ ~esc.res.panic
        /\ Len(esc.res.val) <= Len(esc.b) + 2
        /\ esc.res.val[1] = esc.res.val[Len(esc.res.val)]

----------------------------------------------------------------------------
(* The end of the attribute loop, checked under SpecAttrs.                  *)

\* the steps of the token switch that handle a token other than an Attribute
SwitchSteps ==
    {"doctype", "comment", "text", "raw", "tag", "elided-tag", "elided-pair"}

\* the Attribute token at i belongs to the attribute run of a start tag
Owned(i) ==
    \E j \in 1..(i - 1) :
        /\ z[j].TokenType = "StartTagToken"
        /\ \A k \in (j + 1)..i : z[k].TokenType = "AttributeToken"

\* C20: the attribute loop of a start tag consumes only the Attribute tokens
\* of that tag: in a run that returned nil, the first token behind the
\* attributes of a tag has been handled by the token switch, and the token
\* switch has seen no Attribute token that belongs to a start tag.
C20_LoopConsumesOnlyAttributes ==
    (pc = "done" /\ ret = "nil") =>
        /\ \A i \in 2..(Len(z) - 1) :
              (/\ z[i].TokenType # "AttributeToken"
               /\ z[i - 1].TokenType = "AttributeToken"
               /\ Owned(i - 1))
                 => \E n \in 1..Len(log) :
                        log[n].idx = i /\ log[n].op \in SwitchSteps
        /\ \A n \in 1..Len(log) :
              log[n].op = "attribute" => ~Owned(log[n].idx)

============================================================================
